---- MODULE Spec2Model ----
(***************************************************************************)
(* A model of the default algorithms of the EvaluationDomain trait         *)
(* (poly/src/domain/mod.rs) and of the Flags trait                         *)
(* (serialize/src/flags.rs).                                               *)
(*                                                                         *)
(* The trait is generic in the field F: FftField.  The model instantiates  *)
(* F with the prime field of order P, whose multiplicative group has       *)
(* order 12 = 2^2 * 3, so that it holds radix-2 domains (sizes 1, 2, 4)    *)
(* and mixed-radix domains (sizes 3, 6, 12).                               *)
(***************************************************************************)
EXTENDS Integers, Sequences, FiniteSets, TLC

VARIABLES
    pc,        \* the operation that ran last and where it stands
    self,      \* the domain the operation is called on
    other,     \* the second domain of reindex_by_subdomain
    tau,       \* the field element handed to the operation
    t,         \* the local t of sample_element_outside_domain
    index,     \* the index handed to element / reindex_by_subdomain
    ret,       \* what the operation returned
    coeffs,    \* the buffer of distribute_powers_and_mul_by_const
    args,      \* the other inputs of the operation, as a record
    done,      \* the chunks of the buffer already processed
    value      \* the byte handed to from_u8_remove_flags

vars == <<pc, self, other, tau, t, index, ret, coeffs, args, done, value>>

(***************************************************************************)
(* The field F.                                                            *)
(***************************************************************************)
P == 13

F == 0 .. (P - 1)

FZero == 0
FOne == 1

FAdd(a, b) == (a + b) % P
FSub(a, b) == (a + P - b) % P
FNeg(a) == (P - a) % P
FMul(a, b) == (a * b) % P

\* Field::pow: square and multiply over the bits of the exponent.
RECURSIVE FPow(_, _)
FPow(a, e) ==
    IF e = 0 THEN FOne
    ELSE LET h == FPow(FMul(a, a), e \div 2)
         IN  IF e % 2 = 1 THEN FMul(a, h) ELSE h

None == "None"

\* Field::inverse: None for zero.
FInverse(a) == IF a = FZero THEN None ELSE FPow(a, P - 2)

\* F::from(n as u64)
FFrom(n) == n % P

\* ark_ff::fields::batch_inversion: the running products of the nonzero
\* entries, one inversion, and the back substitution; zero entries are left.
RECURSIVE RunningProducts(_, _, _, _)
RunningProducts(v, i, tmp, prod) ==
    IF i > Len(v) THEN <<tmp, prod>>
    ELSE IF v[i] = FZero THEN RunningProducts(v, i + 1, tmp, prod)
    ELSE RunningProducts(v, i + 1, FMul(tmp, v[i]), Append(prod, FMul(tmp, v[i])))

RECURSIVE BackSubstitute(_, _, _, _, _)
BackSubstitute(v, i, tmp, prod, k) ==
    IF i = 0 THEN v
    ELSE IF v[i] = FZero THEN BackSubstitute(v, i - 1, tmp, prod, k)
    ELSE LET s == IF k > 1 THEN prod[k - 1] ELSE FOne
         IN  BackSubstitute([v EXCEPT ![i] = FMul(tmp, s)], i - 1,
                            FMul(tmp, v[i]), prod, k - 1)

batch_inversion(v) ==
    LET rp == RunningProducts(v, 1, FOne, <<>>)
    IN  IF rp[2] = <<>> THEN v
        ELSE BackSubstitute(v, Len(v), FInverse(rp[1]), rp[2], Len(rp[2]))

(***************************************************************************)
(* Domains: a generator of exact order size and a nonzero coset offset.    *)
(***************************************************************************)
Order(x) ==
    CHOOSE n \in 1 .. (P - 1) :
        /\ FPow(x, n) = FOne
        /\ \A k \in 1 .. (n - 1) : FPow(x, k) # FOne

Domains ==
    { [size |-> Order(x), group_gen |-> x, offset |-> h] :
        x \in 1 .. (P - 1), h \in 1 .. (P - 1) }

size(d) == d.size
group_gen(d) == d.group_gen
coset_offset(d) == d.offset
group_gen_inv(d) == FInverse(d.group_gen)
coset_offset_pow_size(d) == FPow(d.offset, d.size)
size_as_field_element(d) == FFrom(size(d))

\* fn element(&self, i)
element(d, i) ==
    LET result == FPow(group_gen(d), i)
    IN  IF coset_offset(d) # FOne THEN FMul(result, coset_offset(d)) ELSE result

\* Faulty variant: subtracts the offset instead of offset^size.
evaluate_vanishing_polynomial_offset(d, x) ==
    FSub(FPow(x, size(d)), coset_offset(d))

\* fn evaluate_vanishing_polynomial(&self, tau)
evaluate_vanishing_polynomial(d, x) ==
    FSub(FPow(x, size(d)), coset_offset_pow_size(d))

(***************************************************************************)
(* evaluate_all_lagrange_coefficients                                      *)
(***************************************************************************)
Zeros(n) == [k \in 1 .. n |-> FZero]

\* The brute-force search of the branch taken when Z_H(tau) = 0: u_i walks
\* the vector while omega_i walks the domain, up to the first match.
RECURSIVE find_tau(_, _, _, _, _)
find_tau(u, omega_i, i, x, d) ==
    IF i > size(d) THEN u
    ELSE IF omega_i = x THEN [u EXCEPT ![i] = FOne]
    ELSE find_tau(u, FMul(omega_i, group_gen(d)), i + 1, x, d)

\* Faulty variant: the search starts at 1 instead of the coset offset.
find_tau_from_one(d, x) == find_tau(Zeros(size(d)), FOne, 1, x, d)

lagrange_at_domain_element(d, x) ==
    find_tau(Zeros(size(d)), coset_offset(d), 1, x, d)

\* Faulty variant: h^m in place of h^(m-1).
v_0_inv_pow_size(d) ==
    FMul(size_as_field_element(d), FPow(coset_offset(d), size(d)))

\* v_0_inv = m * h^(m-1)
v_0_inv(d) ==
    FMul(size_as_field_element(d), FPow(coset_offset(d), size(d) - 1))

\* The loop over lagrange_coefficients_inverse: coeff = l_i * r_i, then
\* l_i *= group_gen_inv and negative_cur_elem *= group_gen.
RECURSIVE inverse_loop(_, _, _, _, _, _, _)
inverse_loop(v, l_i, negative_cur_elem, i, x, step_l, step_elem) ==
    IF i > Len(v) THEN v
    ELSE LET r_i == FAdd(x, negative_cur_elem)
         IN  inverse_loop([v EXCEPT ![i] = FMul(l_i, r_i)],
                          FMul(l_i, step_l), FMul(negative_cur_elem, step_elem),
                          i + 1, x, step_l, step_elem)

\* Faulty variant: l_i is stepped by group_gen instead of group_gen_inv.
lagrange_coefficients_inverse_gen(d, x) ==
    LET z_h_at_tau == evaluate_vanishing_polynomial(d, x)
        l_0 == FMul(FInverse(z_h_at_tau), v_0_inv(d))
    IN  inverse_loop(Zeros(size(d)), l_0, FNeg(coset_offset(d)), 1, x,
                     group_gen(d), group_gen(d))

lagrange_coefficients_inverse(d, x) ==
    LET z_h_at_tau == evaluate_vanishing_polynomial(d, x)
        l_0 == FMul(FInverse(z_h_at_tau), v_0_inv(d))
    IN  inverse_loop(Zeros(size(d)), l_0, FNeg(coset_offset(d)), 1, x,
                     group_gen_inv(d), group_gen(d))

\* fn evaluate_all_lagrange_coefficients(&self, tau)
evaluate_all_lagrange_coefficients(d, x) ==
    IF evaluate_vanishing_polynomial(d, x) = FZero
    THEN lagrange_at_domain_element(d, x)
    ELSE batch_inversion(lagrange_coefficients_inverse(d, x))

(***************************************************************************)
(* The operations on one domain: element, evaluate_vanishing_polynomial,   *)
(* evaluate_all_lagrange_coefficients and sample_element_outside_domain.   *)
(* A call is made once the previous one has returned; the loop of          *)
(* sample_element_outside_domain takes one step per draw of the rng.       *)
(***************************************************************************)
Unused == "-"

Returned == pc # "sample_loop"

UnusedOutsideDomainOps ==
    /\ other = Unused
    /\ coeffs = Unused
    /\ args = Unused
    /\ done = Unused
    /\ value = Unused

InitDomainOps ==
    /\ pc = "new"
    /\ self \in Domains
    /\ tau = Unused
    /\ t = Unused
    /\ index = Unused
    /\ ret = Unused
    /\ UnusedOutsideDomainOps

Element(i) ==
    /\ Returned
    /\ pc' = "element"
    /\ index' = i
    /\ ret' = element(self, i)
    /\ tau' = Unused
    /\ t' = Unused
    /\ UNCHANGED <<self, other, coeffs, args, done, value>>

EvaluateVanishingPolynomial(x) ==
    /\ Returned
    /\ pc' = "evaluate_vanishing_polynomial"
    /\ tau' = x
    /\ ret' = evaluate_vanishing_polynomial(self, x)
    /\ index' = Unused
    /\ t' = Unused
    /\ UNCHANGED <<self, other, coeffs, args, done, value>>

EvaluateAllLagrangeCoefficients(x) ==
    /\ Returned
    /\ pc' = "evaluate_all_lagrange_coefficients"
    /\ tau' = x
    /\ ret' = evaluate_all_lagrange_coefficients(self, x)
    /\ index' = Unused
    /\ t' = Unused
    /\ UNCHANGED <<self, other, coeffs, args, done, value>>

\* Faulty variant: the first draw is returned unchecked.
sample_again_never(d, x) == FALSE

\* while self.evaluate_vanishing_polynomial(t).is_zero()
sample_again(d, x) == evaluate_vanishing_polynomial(d, x) = FZero

\* let mut t = F::rand(rng);
SampleFirstDraw(x) ==
    /\ Returned
    /\ pc' = "sample_loop"
    /\ t' = x
    /\ ret' = Unused
    /\ tau' = Unused
    /\ index' = Unused
    /\ UNCHANGED <<self, other, coeffs, args, done, value>>

\* the loop body: t = F::rand(rng);
SampleRedraw(x) ==
    /\ pc = "sample_loop"
    /\ sample_again(self, t)
    /\ t' = x
    /\ UNCHANGED <<pc, self, other, tau, index, ret, coeffs, args, done, value>>

\* the loop ends and t is returned
SampleReturn ==
    /\ pc = "sample_loop"
    /\ ~sample_again(self, t)
    /\ pc' = "sample_element_outside_domain"
    /\ ret' = t
    /\ UNCHANGED <<self, other, tau, t, index, coeffs, args, done, value>>

NextDomainOps ==
    \/ \E i \in 0 .. (size(self) - 1) : Element(i)
    \/ \E x \in F : EvaluateVanishingPolynomial(x)
    \/ \E x \in F : EvaluateAllLagrangeCoefficients(x)
    \/ \E x \in F : SampleFirstDraw(x)
    \/ \E x \in F : SampleRedraw(x)
    \/ SampleReturn

SpecDomainOps == InitDomainOps /\ [][NextDomainOps]_vars

(***************************************************************************)
(* Properties of the operations on one domain.                             *)
(***************************************************************************)
Indices(d) == 0 .. (size(d) - 1)

\* The elements h * g^i of the domain, as a set.
DomainElements(d) ==
    { FMul(d.offset, FPow(d.group_gen, i)) : i \in Indices(d) }

\* C2: for every domain (subgroup or coset) and every i in [0, size),
\* evaluate_all_lagrange_coefficients(element(i)) is a vector of length size
\* that is 1 at position i and 0 at every other position.
C2_LagrangeAtElementIsUnit ==
    pc = "evaluate_all_lagrange_coefficients" =>
        \A i \in Indices(self) :
            tau = element(self, i) =>
                /\ Len(ret) = size(self)
                /\ \A k \in Indices(self) :
                       ret[k + 1] = IF k = i THEN FOne ELSE FZero

C2_Witness ==
    /\ pc = "evaluate_all_lagrange_coefficients"
    /\ coset_offset(self) # FOne
    /\ size(self) = 6
    /\ tau = element(self, 4)
    /\ ret = <<0, 0, 0, 0, 1, 0>>

\* The polynomials of the interpolation identity: MaxDense free low
\* coefficients and one free further coefficient, each in 0 .. MaxCoeff.
MaxDense == 2
MaxCoeff == 1

Min(a, b) == IF a < b THEN a ELSE b

\* Polynomials of degree < n as coefficient vectors (constant term first):
\* a dense part of at most MaxDense low coefficients plus one further term.
Polys(n) ==
    { [k \in 1 .. n |->
          FAdd(IF k <= MaxDense THEN lo[k] ELSE FZero,
               IF k = j THEN c ELSE FZero)] :
        lo \in [1 .. MaxDense -> 0 .. MaxCoeff], j \in 1 .. n, c \in 0 .. MaxCoeff }

\* Horner evaluation of a coefficient vector.
RECURSIVE Horner(_, _, _)
Horner(poly, k, x) ==
    IF k > Len(poly) THEN FZero
    ELSE FAdd(poly[k], FMul(x, Horner(poly, k + 1, x)))

Eval(poly, x) == Horner(poly, 1, x)

RECURSIVE FSum(_, _)
FSum(f, n) == IF n = 0 THEN FZero ELSE FAdd(f[n], FSum(f, n - 1))

\* sum_i L[i] * P(element(i))
Interpolate(d, L, poly) ==
    FSum([k \in 1 .. size(d) |-> FMul(L[k], Eval(poly, element(d, k - 1)))], size(d))

\* C3: for tau outside the domain and every polynomial P of degree < size,
\* the returned vector L satisfies sum_i L[i] * P(element(i)) = P(tau).
C3_InterpolationIdentity ==
    (pc = "evaluate_all_lagrange_coefficients" /\ tau \notin DomainElements(self)) =>
        /\ Len(ret) = size(self)
        /\ \A poly \in Polys(size(self)) :
               Interpolate(self, ret, poly) = Eval(poly, tau)

C3_Witness ==
    /\ pc = "evaluate_all_lagrange_coefficients"
    /\ tau \notin DomainElements(self)
    /\ size(self) = 6
    /\ coset_offset(self) # FOne
    /\ \E poly \in Polys(6) :
           /\ poly[6] # FZero
           /\ Eval(poly, tau) # FZero
           /\ Interpolate(self, ret, poly) = Eval(poly, tau)

FDiv(a, b) == FMul(a, FInverse(b))

\* v_i = g^i * v_0
V(d, v_0, i) == FMul(FPow(group_gen(d), i), v_0)

LagrangeFormula(d, x, v_0, i) ==
    FDiv(FMul(evaluate_vanishing_polynomial(d, x), V(d, v_0, i)),
         FSub(x, FMul(coset_offset(d), FPow(group_gen(d), i))))

\* C4 as stated: on the general path L_i(tau) = Z_H(tau) * v_i / (tau - h*g^i)
\* with v_0 = size * h^(size-1) and v_{i+1} = g * v_i.
C4_GeneralPathAsStated ==
    (pc = "evaluate_all_lagrange_coefficients" /\ tau \notin DomainElements(self)) =>
        \A i \in Indices(self) :
            ret[i + 1] =
                LagrangeFormula(self, tau,
                    FMul(FFrom(size(self)), FPow(coset_offset(self), size(self) - 1)), i)

\* C4 amended: on the general path L_i(tau) = Z_H(tau) * v_i / (tau - h*g^i)
\* with v_0 = 1 / (size * h^(size-1)) and v_{i+1} = g * v_i.
C4_GeneralPathReciprocal ==
    (pc = "evaluate_all_lagrange_coefficients" /\ tau \notin DomainElements(self)) =>
        \A i \in Indices(self) :
            ret[i + 1] =
                LagrangeFormula(self, tau,
                    FInverse(FMul(FFrom(size(self)),
                                  FPow(coset_offset(self), size(self) - 1))), i)

C4_Witness ==
    /\ pc = "evaluate_all_lagrange_coefficients"
    /\ tau \notin DomainElements(self)
    /\ size(self) = 4
    /\ coset_offset(self) = 2
    /\ ret[4] = LagrangeFormula(self, tau, FInverse(FMul(4, 8)), 3)
    /\ ret[4] # LagrangeFormula(self, tau, FMul(4, 8), 3)

\* C5: for every domain with generator of exact order size and nonzero
\* offset, and every i in [0, size),
\* evaluate_vanishing_polynomial(element(i)) = 0.
C5_VanishesOnDomain ==
    pc = "evaluate_vanishing_polynomial" =>
        \A i \in Indices(self) : tau = element(self, i) => ret = FZero

C5_Witness ==
    /\ pc = "evaluate_vanishing_polynomial"
    /\ size(self) = 12
    /\ coset_offset(self) # FOne
    /\ tau = element(self, 7)
    /\ ret = FZero

\* What sample_element_outside_domain returned lies outside the domain.
C6_ReturnedOutside ==
    pc = "sample_element_outside_domain" =>
        /\ evaluate_vanishing_polynomial(self, ret) # FZero
        /\ ret \notin DomainElements(self)

\* One step of the loop: a draw in the domain is replaced by a new draw, a
\* draw outside the domain is returned.
C6_LoopStep ==
    pc = "sample_loop" =>
        IF t \in DomainElements(self)
        THEN pc' = "sample_loop" /\ ret' = Unused /\ t' \in F
        ELSE pc' = "sample_element_outside_domain" /\ ret' = t

\* C6: sample_element_outside_domain only ever returns a t with
\* evaluate_vanishing_polynomial(t) # 0, which is no domain element, whatever
\* the rng draws; a draw that lies in the domain is rejected and redrawn, and
\* the loop returns the draw as soon as it lies outside the domain.
C6_SampleOutsideDomain == []C6_ReturnedOutside /\ [][C6_LoopStep]_vars

C6_Witness ==
    /\ pc = "sample_element_outside_domain"
    /\ size(self) = 6
    /\ coset_offset(self) # FOne
    /\ ret = t
    /\ ret # FZero
    /\ ret \notin DomainElements(self)

(***************************************************************************)
(* reindex_by_subdomain: calls self.reindex_by_subdomain(other, index) for *)
(* any two domains of the field.                                           *)
(***************************************************************************)
Panic == -1

\* Faulty variant: a subdomain index is not scaled by period.
reindex_by_subdomain_same_index(d, o, idx) ==
    IF size(d) < size(o) THEN Panic
    ELSE LET period == size(d) \div size(o)
         IN  IF idx < size(o) THEN idx
             ELSE LET i == idx - size(o)
                      x == period - 1
                  IN  IF x = 0 THEN Panic ELSE i + (i \div x) + 1

\* Faulty variant: the + 1 for the subdomain element at index 0 is missing.
reindex_by_subdomain_no_shift(d, o, idx) ==
    IF size(d) < size(o) THEN Panic
    ELSE LET period == size(d) \div size(o)
         IN  IF idx < size(o) THEN idx * period
             ELSE LET i == idx - size(o)
                      x == period - 1
                  IN  IF x = 0 THEN Panic ELSE i + (i \div x)

\* fn reindex_by_subdomain(&self, other, index): the assertion and the
\* division by x = 0 abort the call.
reindex_by_subdomain(d, o, idx) ==
    IF size(d) < size(o) THEN Panic
    ELSE LET period == size(d) \div size(o)
         IN  IF idx < size(o) THEN idx * period
             ELSE LET i == idx - size(o)
                      x == period - 1
                  IN  IF x = 0 THEN Panic ELSE i + (i \div x) + 1

\* The coset offsets of the two domains range over 1 .. MaxOffset.
MaxOffset == 3

\* The domains whose coset offset is at most MaxOffset.
SmallOffsetDomains == { d \in Domains : coset_offset(d) <= MaxOffset }

InitReindex ==
    /\ pc = "new"
    /\ self \in SmallOffsetDomains
    /\ other \in SmallOffsetDomains
    /\ index = Unused
    /\ ret = Unused
    /\ tau = Unused
    /\ t = Unused
    /\ coeffs = Unused
    /\ args = Unused
    /\ done = Unused
    /\ value = Unused

ReindexBySubdomain(idx) ==
    /\ pc' = "reindex_by_subdomain"
    /\ index' = idx
    /\ ret' = reindex_by_subdomain(self, other, idx)
    /\ UNCHANGED <<self, other, tau, t, coeffs, args, done, value>>

NextReindex == \E idx \in Indices(self) : ReindexBySubdomain(idx)

SpecReindex == InitReindex /\ [][NextReindex]_vars

Divides(a, b) == b % a = 0

\* other is the subgroup of self's group of its size: its size divides
\* self's and its generator is self's raised to the quotient.
SubdomainOf(o, d) ==
    /\ Divides(size(o), size(d))
    /\ group_gen(o) = FPow(group_gen(d), size(d) \div size(o))

\* C1 as stated: with other.size() dividing self.size() and other's
\* generator equal to self's raised to self.size()/other.size(),
\* self.element(self.reindex_by_subdomain(other, j)) = other.element(j) for
\* every j in [0, other.size()).
C1_ReindexSameElementAsStated ==
    (/\ pc = "reindex_by_subdomain"
     /\ SubdomainOf(other, self)
     /\ index < size(other)) =>
        /\ ret # Panic
        /\ element(self, ret) = element(other, index)

\* C1 amended: the same, for two domains that also have the same coset
\* offset.
C1_ReindexSameElementSameOffset ==
    (/\ pc = "reindex_by_subdomain"
     /\ SubdomainOf(other, self)
     /\ coset_offset(other) = coset_offset(self)
     /\ index < size(other)) =>
        /\ ret # Panic
        /\ element(self, ret) = element(other, index)

C1_Witness ==
    /\ pc = "reindex_by_subdomain"
    /\ SubdomainOf(other, self)
    /\ size(self) = 12
    /\ size(other) = 4
    /\ coset_offset(self) = 2
    /\ coset_offset(other) = 2
    /\ index = 3
    /\ ret = 9
    /\ element(self, 9) = element(other, 3)

\* The non-multiples of period below n, and the rank of one among them.
NonMultiples(n, period) == { k \in 0 .. (n - 1) : k % period # 0 }

Rank(k, S) == Cardinality({ j \in S : j < k })

\* C10: whenever self.size() >= other.size() and other.size() divides
\* self.size(), the call returns a value for every index in [0, self.size()),
\* the results form a permutation of [0, self.size()), the indices below
\* other.size() map to the multiples of period, and the indices from
\* other.size() on map, in increasing order, onto the non-multiples of period.
C10_ReindexPermutation ==
    (/\ pc = "reindex_by_subdomain"
     /\ size(self) >= size(other)
     /\ Divides(size(other), size(self))) =>
        LET n == size(self)
            period == n \div size(other)
            r == [i \in 0 .. (n - 1) |-> reindex_by_subdomain(self, other, i)]
        IN  /\ ret # Panic
            /\ ret = r[index]
            /\ \A i \in 0 .. (n - 1) : r[i] \in 0 .. (n - 1)
            /\ \A i, j \in 0 .. (n - 1) : i # j => r[i] # r[j]
            /\ \A k \in 0 .. (n - 1) : \E i \in 0 .. (n - 1) : r[i] = k
            /\ index < size(other) => ret = index * period
            /\ index >= size(other) =>
                   /\ ret \in NonMultiples(n, period)
                   /\ Rank(ret, NonMultiples(n, period)) = index - size(other)

C10_Witness ==
    /\ pc = "reindex_by_subdomain"
    /\ size(self) = 12
    /\ size(other) = 4
    /\ index = 7
    /\ ret = 5

(***************************************************************************)
(* distribute_powers_and_mul_by_const: the sequential variant is one loop  *)
(* over the buffer; the parallel variant hands the chunks of the buffer to *)
(* the worker pool, which processes them in any order.                     *)
(***************************************************************************)
\* Buffers hold at most MaxBuf entries, each in 1 .. MaxVal; g and c range
\* over 0 .. MaxScalar; the pool has 1 .. MaxCpus threads.
MaxBuf == 3
MaxVal == 2
MaxScalar == 2
MaxCpus == 3

\* let min_parallel_chunk_size = 1024;  With this floor a buffer of MaxBuf
\* entries is one chunk, so the floors 1 .. MaxFloor are run as well: they
\* split the buffers of the model into several chunks.
MaxFloor == 2

min_parallel_chunk_size == 1024

Max(a, b) == IF a > b THEN a ELSE b

\* chunk.iter_mut().for_each(|coeff| { *coeff *= pow; pow *= &g }) over the
\* positions i .. last of the buffer.
RECURSIVE mul_by_powers(_, _, _, _, _)
mul_by_powers(buf, i, last, pow, g) ==
    IF i > last THEN buf
    ELSE mul_by_powers([buf EXCEPT ![i] = FMul(buf[i], pow)], i + 1, last,
                       FMul(pow, g), g)

\* The sequential variant.
distribute_powers_and_mul_by_const(buf, g, c) ==
    mul_by_powers(buf, 1, Len(buf), c, g)

\* max(coeffs.len() / num_cpus_available, min_parallel_chunk_size)
num_elem_per_thread(len, num_cpus_available, min_chunk) ==
    Max(len \div num_cpus_available, min_chunk)

\* The chunks of chunks_mut(n) over a buffer of length len, numbered from 0.
Chunks(len, n) == 0 .. (((len + n - 1) \div n) - 1)

\* Faulty variant: the exponent is the chunk's number, not its start index.
chunk_offset_by_chunk_index(i, n, g, c) == FMul(c, FPow(g, i))

\* let offset = c * g.pow([(i * num_elem_per_thread) as u64]);
chunk_offset(i, n, g, c) == FMul(c, FPow(g, i * n))

\* The closure run on chunk i.
process_chunk(buf, i, n, g, c) ==
    mul_by_powers(buf, i * n + 1, Min((i + 1) * n, Len(buf)),
                  chunk_offset(i, n, g, c), g)

Buffers == UNION { [1 .. n -> 1 .. MaxVal] : n \in 0 .. MaxBuf }

Scalars == 0 .. MaxScalar

InitDistribute ==
    /\ pc = "new"
    /\ coeffs \in Buffers
    /\ args \in [ g : Scalars, c : Scalars, coeffs : {coeffs},
                  num_cpus_available : 1 .. MaxCpus,
                  min_chunk : (1 .. MaxFloor) \cup {min_parallel_chunk_size} ]
    /\ done = {}
    /\ self = Unused
    /\ other = Unused
    /\ tau = Unused
    /\ t = Unused
    /\ index = Unused
    /\ ret = Unused
    /\ value = Unused

ChunkSize == num_elem_per_thread(Len(coeffs), args.num_cpus_available, args.min_chunk)

\* #[cfg(not(feature = "parallel"))]
DistributeSequential ==
    /\ pc = "new"
    /\ pc' = "sequential_done"
    /\ coeffs' = distribute_powers_and_mul_by_const(coeffs, args.g, args.c)
    /\ UNCHANGED <<self, other, tau, t, index, ret, args, done, value>>

\* #[cfg(feature = "parallel")]: a worker takes a chunk not yet processed.
ProcessChunk(i) ==
    /\ pc \in {"new", "parallel"}
    /\ i \notin done
    /\ pc' = "parallel"
    /\ coeffs' = process_chunk(coeffs, i, ChunkSize, args.g, args.c)
    /\ done' = done \cup {i}
    /\ UNCHANGED <<self, other, tau, t, index, ret, args, value>>

\* for_each returns once every chunk has been processed.
DistributeParallelReturn ==
    /\ pc \in {"new", "parallel"}
    /\ done = Chunks(Len(coeffs), ChunkSize)
    /\ pc' = "parallel_done"
    /\ UNCHANGED <<self, other, tau, t, index, ret, coeffs, args, done, value>>

NextDistribute ==
    \/ DistributeSequential
    \/ \E i \in Chunks(Len(coeffs), ChunkSize) : ProcessChunk(i)
    \/ DistributeParallelReturn

SpecDistribute == InitDistribute /\ [][NextDistribute]_vars

\* buffer[i] * c * g^i, position by position.
Distributed(buf, g, c) ==
    [k \in 1 .. Len(buf) |-> FMul(buf[k], FMul(c, FPow(g, k - 1)))]

\* C7: distribute_powers_and_mul_by_const replaces buffer[i] by
\* buffer[i] * c * g^i for every i, and the chunked variant ends with the
\* same buffer as the sequential one for every buffer length, chunk size and
\* order in which the chunks are processed.
C7_ChunkedEqualsSequential ==
    /\ pc = "sequential_done" => coeffs = Distributed(args.coeffs, args.g, args.c)
    /\ pc = "parallel_done" =>
           /\ coeffs = Distributed(args.coeffs, args.g, args.c)
           /\ coeffs = distribute_powers_and_mul_by_const(args.coeffs, args.g, args.c)

C7_Witness ==
    /\ pc = "parallel_done"
    /\ Len(coeffs) = 3
    /\ ChunkSize = 1
    /\ done = {0, 1, 2}
    /\ args.g = 2
    /\ args.c = 2
    /\ args.coeffs = <<1, 2, 1>>
    /\ coeffs = <<2, 8, 8>>

(***************************************************************************)
(* mul_polynomials_in_evaluation_domain.  The method does not read self.   *)
(***************************************************************************)
\* The evaluation vectors hold at most MaxLen entries, out of MaxEval + 1
\* values.
MaxLen == 2
MaxEval == 2

\* Evaluations: zero and the MaxEval largest elements of the field, whose
\* products wrap around the modulus.
EvalVals == {FZero} \cup { P - k : k \in 1 .. MaxEval }

Evals == UNION { [1 .. n -> EvalVals] : n \in 0 .. MaxLen }

\* .zip(other_evals).for_each(|(a, b)| *a *= b)
zip_mul(result, other_evals) ==
    [k \in 1 .. Len(result) |->
        IF k <= Len(other_evals) THEN FMul(result[k], other_evals[k]) ELSE result[k]]

\* Faulty variant: the lengths are not compared.
mul_polynomials_unchecked(self_evals, other_evals) ==
    [aborted |-> FALSE, result |-> zip_mul(self_evals, other_evals)]

\* fn mul_polynomials_in_evaluation_domain(&self, self_evals, other_evals):
\* assert_eq! aborts the call; otherwise a copy of self_evals is multiplied.
mul_polynomials_in_evaluation_domain(self_evals, other_evals) ==
    IF Len(self_evals) # Len(other_evals)
    THEN [aborted |-> TRUE]
    ELSE [aborted |-> FALSE, result |-> zip_mul(self_evals, other_evals)]

InitMul ==
    /\ pc = "new"
    /\ args \in [self_evals : Evals, other_evals : Evals]
    /\ ret = Unused
    /\ self = Unused
    /\ other = Unused
    /\ tau = Unused
    /\ t = Unused
    /\ index = Unused
    /\ coeffs = Unused
    /\ done = Unused
    /\ value = Unused

MulPolynomialsInEvaluationDomain ==
    /\ pc' = "mul_polynomials_in_evaluation_domain"
    /\ ret' = mul_polynomials_in_evaluation_domain(args.self_evals, args.other_evals)
    /\ UNCHANGED <<self, other, tau, t, index, coeffs, args, done, value>>

NextMul == MulPolynomialsInEvaluationDomain

SpecMul == InitMul /\ [][NextMul]_vars

\* The call aborted, or returned the entry-wise product.
C9_Result ==
    pc = "mul_polynomials_in_evaluation_domain" =>
        LET a == args.self_evals
            b == args.other_evals
        IN  IF Len(a) # Len(b)
            THEN ret.aborted
            ELSE /\ ~ret.aborted
                 /\ Len(ret.result) = Len(a)
                 /\ \A k \in 1 .. Len(a) : ret.result[k] = (a[k] * b[k]) % P

\* The call leaves self_evals and other_evals as they were.
C9_InputsKept == pc' = "mul_polynomials_in_evaluation_domain" => args' = args

\* C9: mul_polynomials_in_evaluation_domain aborts when the inputs differ in
\* length; otherwise it returns a vector of that length whose i-th entry is
\* a_evals[i] * b_evals[i]; both inputs are left unchanged.
C9_PointwiseProduct == []C9_Result /\ [][C9_InputsKept]_vars

C9_Witness ==
    /\ pc = "mul_polynomials_in_evaluation_domain"
    /\ args.self_evals = <<12, 11>>
    /\ args.other_evals = <<11, 11>>
    /\ ~ret.aborted
    /\ ret.result = <<2, 4>>

C9_WitnessAbort ==
    /\ pc = "mul_polynomials_in_evaluation_domain"
    /\ args.self_evals = <<12, 11>>
    /\ args.other_evals = <<11>>
    /\ ret.aborted

(***************************************************************************)
(* Flags::from_u8_remove_flags, over the flag types of the library.        *)
(***************************************************************************)
\* The variants of a flag type with the bit mask of each.
Variants(flags_type) ==
    CASE flags_type = "EmptyFlags" -> { [variant |-> "EmptyFlags", mask |-> 0] }
      [] flags_type = "TEFlags" ->
            { [variant |-> "XIsPositive", mask |-> 0],
              [variant |-> "XIsNegative", mask |-> 128] }
      [] flags_type = "SWFlags" ->
            { [variant |-> "YIsPositive", mask |-> 0],
              [variant |-> "PointAtInfinity", mask |-> 64],
              [variant |-> "YIsNegative", mask |-> 128] }

FlagsTypes == {"EmptyFlags", "TEFlags", "SWFlags"}

BIT_SIZE(flags_type) ==
    CASE flags_type = "EmptyFlags" -> 0
      [] flags_type = "TEFlags" -> 1
      [] flags_type = "SWFlags" -> 2

U8 == 0 .. 255

RECURSIVE Shl(_, _)
Shl(x, n) == IF n = 0 THEN x ELSE Shl(2 * x, n - 1)

Bit(x, b) == (x \div Shl(1, b)) % 2

\* !x on a u8
Not8(x) == 255 - x

\* x & y on u8
RECURSIVE And8From(_, _, _)
And8From(x, y, b) ==
    IF b = 8 THEN 0
    ELSE Bit(x, b) * Bit(y, b) * Shl(1, b) + And8From(x, y, b + 1)

And8(x, y) == And8From(x, y, 0)

\* fn u8_bitmask(&self)
u8_bitmask(f) == f.mask

\* fn from_u8(value): only the BIT_SIZE most significant bits are read; None
\* when they are the mask of no variant.
from_u8(flags_type, v) ==
    LET low == Shl(1, 8 - BIT_SIZE(flags_type))
        top == v - (v % low)
        hit == { f \in Variants(flags_type) : f.mask = top }
    IN  IF hit = {} THEN [some |-> FALSE]
        ELSE [some |-> TRUE, flag |-> CHOOSE f \in hit : TRUE]

\* Faulty variant: the mask is applied without the complement.
from_u8_keep_only_flags(flags_type, v) ==
    LET flags == from_u8(flags_type, v)
    IN  [flags |-> flags,
         value |-> IF flags.some THEN And8(v, u8_bitmask(flags.flag)) ELSE v]

\* fn from_u8_remove_flags(value: &mut u8): what is returned and the byte
\* left in *value.
from_u8_remove_flags(flags_type, v) ==
    LET flags == from_u8(flags_type, v)
    IN  [flags |-> flags,
         value |-> IF flags.some THEN And8(v, Not8(u8_bitmask(flags.flag))) ELSE v]

InitFlags ==
    /\ pc = "new"
    /\ value \in U8
    /\ args \in [flags_type : FlagsTypes, value : {value}]
    /\ ret = Unused
    /\ self = Unused
    /\ other = Unused
    /\ tau = Unused
    /\ t = Unused
    /\ index = Unused
    /\ coeffs = Unused
    /\ done = Unused

FromU8RemoveFlags ==
    /\ pc = "new"
    /\ pc' = "from_u8_remove_flags"
    /\ ret' = from_u8_remove_flags(args.flags_type, value).flags
    /\ value' = from_u8_remove_flags(args.flags_type, value).value
    /\ UNCHANGED <<self, other, tau, t, index, coeffs, args, done>>

NextFlags == FromU8RemoveFlags

SpecFlags == InitFlags /\ [][NextFlags]_vars

\* C8: from_u8_remove_flags(value) returns what from_u8(*value) returns; on
\* None the byte is left unchanged, and on Some(f) exactly the bits of
\* f.u8_bitmask() are cleared and every other bit is kept.
C8_RemoveFlags ==
    pc = "from_u8_remove_flags" =>
        /\ ret = from_u8(args.flags_type, args.value)
        /\ ~ret.some => value = args.value
        /\ ret.some =>
               \A b \in 0 .. 7 :
                   Bit(value, b) =
                       IF Bit(u8_bitmask(ret.flag), b) = 1 THEN 0 ELSE Bit(args.value, b)

C8_Witness ==
    /\ pc = "from_u8_remove_flags"
    /\ args.flags_type = "SWFlags"
    /\ args.value = 165
    /\ ret.some
    /\ ret.flag.variant = "YIsNegative"
    /\ value = 37

C8_WitnessNone ==
    /\ pc = "from_u8_remove_flags"
    /\ args.flags_type = "SWFlags"
    /\ args.value = 229
    /\ ~ret.some
    /\ value = 229

====
